---- MODULE Spec2Model ----
(***************************************************************************)
(* Model of app.py, a Streamlit page: the whole script is executed from    *)
(* top to bottom once per user interaction (a "run").  A run creates the   *)
(* two folders, stores the selected upload under a fresh uuid4 name, and,  *)
(* when the "Analyze Damage" button triggered the run, checks the model    *)
(* file, runs YOLO on the stored upload, saves and shows the annotated     *)
(* image and reports the number of detections.                             *)
(*                                                                         *)
(* Strings that the script concatenates (file names, paths) are sequences  *)
(* of tokens, so that concatenation is \o and a prefix is a real prefix.   *)
(* Calls that only render text (st.error, st.success, st.info) are total.  *)
(***************************************************************************)
EXTENDS Integers, Sequences, FiniteSets, TLC

\* Number of uuid4 values that can be drawn (each stored upload takes one).
MaxIds == 3
\* Largest single-digit number of boxes the model returns (a two-digit
\* count, 10 + MaxBoxes, is returned as well).
MaxBoxes == 1

None == [name |-> <<>>, bytes |-> "none"]

\* The files a user can pick: st.file_uploader(type=["jpg","jpeg","png"]).
UploadedFiles ==
  { [name |-> <<"car", ".", "jpg">>, bytes |-> "imgA"],
    [name |-> <<"car", ".", "v2", ".", "png">>, bytes |-> "imgB"] }

Ids == 1..MaxIds
BoxCounts == (0..MaxBoxes) \cup {10 + MaxBoxes}

\* Python exception classes and their base class.
Base(cls) ==
  CASE cls = "RuntimeError" -> "Exception"
    [] cls = "ValueError" -> "Exception"
    [] cls = "FileNotFoundError" -> "Exception"
    [] cls = "Exception" -> "BaseException"
    [] cls = "RerunException" -> "ScriptControlException"
    [] cls = "ScriptControlException" -> "BaseException"
    [] OTHER -> "object"

RECURSIVE IsSubclass(_, _)
IsSubclass(cls, of) ==
  IF cls = of THEN TRUE
  ELSE IF cls = "object" THEN FALSE
  ELSE IsSubclass(Base(cls), of)

\* What a library call inside the try block can raise; str(e) is the text.
LibraryErrors ==
  { [cls |-> "RuntimeError", text |-> <<"bad weights">>],
    [cls |-> "ValueError", text |-> <<>>] }
\* The signal with which the framework stops a run, at one of its own calls,
\* when the user has interacted meanwhile.
ControlSignal == [cls |-> "RerunException", text |-> <<>>]
\* The statements of the try block that call the framework (st.subheader,
\* st.image, st.success, st.info).
StCallPoints == {"display", "count"}
Raisable(point) ==
  LibraryErrors \cup (IF point \in StCallPoints THEN {ControlSignal} ELSE {})
NoExc == [cls |-> "object", text |-> <<>>]

MODEL_PATH == <<"appdir", "/", "damage-detector.pt">>
UPLOAD_FOLDER == "uploads"
RESULT_FOLDER == "results"

DigitChars == <<"0", "1", "2", "3", "4", "5", "6", "7", "8", "9">>

\* str(n) of a non-negative int, as the sequence of its decimal digits.
RECURSIVE Str(_)
Str(n) ==
  IF n < 10 THEN <<DigitChars[n + 1]>>
  ELSE Str(n \div 10) \o <<DigitChars[(n % 10) + 1]>>

\* str(uuid.uuid4()) for the drawn value u.
UuidStr(u) == <<"uuid-">> \o Str(u)

\* os.path.splitext(name)[-1]: from the last "." on; empty when there is
\* none after the first character.
SplitExt(name) ==
  LET dots == {i \in 2..Len(name) : name[i] = "."}
  IN IF dots = {} THEN <<>>
     ELSE SubSeq(name, CHOOSE i \in dots : \A j \in dots : j <= i, Len(name))

\* os.path.join(folder, filename)
PathJoin(folder, filename) == <<folder, "/">> \o filename

\* f"{uuid.uuid4()}{file_ext}"
UniqueFilename(u, file_ext) == UuidStr(u) \o file_ext

\* One rendered element of the page.
Elem(kind, path, text) == [kind |-> kind, path |-> path, text |-> text]

VARIABLES
  uploadsDir,      \* os.path.isdir("uploads")
  resultsDir,      \* os.path.isdir("results")
  uploads,         \* files of uploads/: path -> bytes
  results,         \* files of results/: path -> annotated image
  modelExists,     \* os.path.exists(MODEL_PATH)
  uploaded_file,   \* value of the file_uploader widget (None when empty)
  clicked,         \* the button press that triggered the current run
  pc,              \* position of the script in the current run
  unique_filename, \* script variables of the current run
  input_path,
  yolo,            \* result of model.predict: [src, boxes]
  res_image,       \* plotted annotated image
  result_path,
  page,            \* elements rendered by the current run, in order
  exc,             \* exception raised in the current run
  usedIds,         \* uuid4 values drawn so far
  loads,           \* YOLO(MODEL_PATH) calls in the current run
  predicts,        \* model.predict calls in the current run
  wrote,           \* paths written by the current run
  writeLog,        \* every path written so far, in order
  selWrites,       \* upload files written since the current file was selected
  inputs           \* what the current run has read from its environment

vars == <<uploadsDir, resultsDir, uploads, results, modelExists, uploaded_file,
          clicked, pc, unique_filename, input_path, yolo, res_image,
          result_path, page, exc, usedIds, loads, predicts, wrote, writeLog,
          selWrites, inputs>>

fsVars == <<uploadsDir, resultsDir, uploads, results>>
runVars == <<unique_filename, input_path, yolo, res_image, result_path>>

NoFiles == [p \in {} |-> "none"]
NoYolo == [src |-> "none", boxes |-> 0]
NoImage == [orig |-> "none", boxes |-> 0]
NoInputs == [file |-> None, pressed |-> FALSE, model |-> "unread", id |-> 0,
             at |-> "none", exc |-> NoExc, boxes |-> 0]

\* open(path, "wb") and write: the folder's files with path (re)written.
WriteTo(dir, path, content) ==
  [p \in DOMAIN dir \cup {path} |-> IF p = path THEN content ELSE dir[p]]

Append2(s, a, b) == Append(Append(s, a), b)

\* The rendered texts.
PlaceholderMsg == Elem("info", <<>>, <<"Results will appear here after upload.">>)
OriginalImage(path) == Elem("image", path, <<"Original Image">>)
ModelMissingMsg ==
  Elem("error", <<>>,
       <<"Model file not found at: ">> \o MODEL_PATH
         \o <<". Please ensure 'damage-detector.pt' is in the project directory.">>)
ResultsHeader == Elem("subheader", <<>>, <<"2. Detection Results">>)
ResultImage(path) == Elem("image", path, <<"Detected Damages">>)
SuccessMsg(n) == Elem("success", <<>>, <<"Detected ">> \o Str(n) \o <<" issue(s)!">>)
NoDamageMsg == Elem("info", <<>>, <<"No visible damage detected.">>)
DetectionErrorMsg(e) == Elem("error", <<>>, <<"Error during detection: ">> \o e.text)

Init ==
  /\ uploadsDir \in BOOLEAN
  /\ resultsDir \in BOOLEAN
  /\ uploads = NoFiles
  /\ results = NoFiles
  /\ modelExists \in BOOLEAN
  /\ uploaded_file = None
  /\ clicked = FALSE
  /\ pc = "start"
  /\ unique_filename = <<>>
  /\ input_path = <<>>
  /\ yolo = NoYolo
  /\ res_image = NoImage
  /\ result_path = <<>>
  /\ page = <<>>
  /\ exc = NoExc
  /\ usedIds = {}
  /\ loads = 0
  /\ predicts = 0
  /\ wrote = {}
  /\ writeLog = <<>>
  /\ selWrites = 0
  /\ inputs = NoInputs

\* ---------------------------------------------------------------- the user

Idle == pc \in {"done", "aborted"}

\* A widget interaction reruns the script from the top with the widget
\* values of that interaction.
Rerun(file, press) ==
  /\ uploaded_file' = file
  /\ clicked' = press
  /\ pc' = "start"
  /\ unique_filename' = <<>>
  /\ input_path' = <<>>
  /\ yolo' = NoYolo
  /\ res_image' = NoImage
  /\ result_path' = <<>>
  /\ page' = <<>>
  /\ exc' = NoExc
  /\ loads' = 0
  /\ predicts' = 0
  /\ wrote' = {}
  /\ inputs' = [NoInputs EXCEPT !.file = file, !.pressed = press]
  /\ UNCHANGED <<fsVars, modelExists, usedIds, writeLog>>

\* The user picks a file in the uploader.
UserUpload ==
  /\ Idle
  /\ usedIds # Ids
  /\ \E f \in UploadedFiles : Rerun(f, FALSE)
  /\ selWrites' = 0

\* The user removes the file from the uploader.
UserClear ==
  /\ Idle
  /\ uploaded_file # None
  /\ Rerun(None, FALSE)
  /\ selWrites' = 0

\* The user presses "Analyze Damage" (rendered only below an upload).
UserPress ==
  /\ Idle
  /\ uploaded_file # None
  /\ usedIds # Ids
  /\ Rerun(uploaded_file, TRUE)
  /\ UNCHANGED selWrites

\* The model file is installed or removed while no run is in progress.
EnvModelFile ==
  /\ Idle
  /\ modelExists' = ~modelExists
  /\ UNCHANGED <<fsVars, uploaded_file, clicked, pc, runVars, page, exc, usedIds,
                 loads, predicts, wrote, writeLog, selWrites, inputs>>

\* ---------------------------------------------------------------- the script

\* Variant of MakeDirs without exist_ok: FileExistsError, outside any try,
\* when a folder is already there.
MakeDirsNoExistOk ==
  /\ pc = "start"
  /\ uploadsDir' = TRUE
  /\ resultsDir' = (resultsDir \/ ~uploadsDir)
  /\ pc' = IF uploadsDir \/ resultsDir THEN "aborted" ELSE "uploader"
  /\ UNCHANGED <<uploads, results, modelExists, uploaded_file, clicked, runVars,
                 page, exc, usedIds, loads, predicts, wrote, writeLog, selWrites,
                 inputs>>

\* os.makedirs(UPLOAD_FOLDER, exist_ok=True); os.makedirs(RESULT_FOLDER, ...)
MakeDirs ==
  /\ pc = "start"
  /\ uploadsDir' = TRUE
  /\ resultsDir' = TRUE
  /\ pc' = "uploader"
  /\ UNCHANGED <<uploads, results, modelExists, uploaded_file, clicked, runVars,
                 page, exc, usedIds, loads, predicts, wrote, writeLog, selWrites,
                 inputs>>

\* else branch of "if uploaded_file is not None": the empty state.
Placeholder ==
  /\ pc = "uploader"
  /\ uploaded_file = None
  /\ page' = Append(page, PlaceholderMsg)
  /\ pc' = "done"
  /\ UNCHANGED <<fsVars, modelExists, uploaded_file, clicked, runVars, exc,
                 usedIds, loads, predicts, wrote, writeLog, selWrites, inputs>>

\* Variant of Uuid4 that can return a value again.
Uuid4Any == Ids

\* The values uuid.uuid4() can return: one never returned before.
Uuid4 == Ids \ usedIds

\* Variant of SaveUpload that stores nothing when uploads/ already holds a
\* file with the same bytes, and uses that file.
SaveUploadDedup ==
  /\ pc = "uploader"
  /\ uploaded_file # None
  /\ LET same == {p \in DOMAIN uploads : uploads[p] = uploaded_file.bytes}
     IN IF same # {}
        THEN /\ \E p \in same :
                  /\ input_path' = p
                  /\ unique_filename' = SubSeq(p, 3, Len(p))
             /\ \E u \in Uuid4 :
                  /\ usedIds' = usedIds \cup {u}
                  /\ inputs' = [inputs EXCEPT !.id = u]
             /\ selWrites' = selWrites + 1
             /\ UNCHANGED <<uploads, wrote, writeLog>>
        ELSE \E u \in Uuid4 :
               LET name == UniqueFilename(u, SplitExt(uploaded_file.name))
                   path == PathJoin(UPLOAD_FOLDER, name)
               IN /\ unique_filename' = name
                  /\ input_path' = path
                  /\ usedIds' = usedIds \cup {u}
                  /\ inputs' = [inputs EXCEPT !.id = u]
                  /\ uploads' = WriteTo(uploads, path, uploaded_file.bytes)
                  /\ wrote' = wrote \cup {path}
                  /\ writeLog' = Append(writeLog, path)
                  /\ selWrites' = selWrites + 1
  /\ pc' = "show"
  /\ UNCHANGED <<uploadsDir, resultsDir, results, modelExists, uploaded_file,
                 clicked, yolo, res_image, result_path, page, exc, loads, predicts>>

\* Save uploaded file: a fresh name, then open(input_path, "wb").write(...).
\* open raises FileNotFoundError, outside any try, when the folder is absent.
SaveUpload ==
  /\ pc = "uploader"
  /\ uploaded_file # None
  /\ \E u \in Uuid4 :
       LET file_ext == SplitExt(uploaded_file.name)
           name == UniqueFilename(u, file_ext)
           path == PathJoin(UPLOAD_FOLDER, name)
       IN /\ unique_filename' = name
          /\ input_path' = path
          /\ usedIds' = usedIds \cup {u}
          /\ inputs' = [inputs EXCEPT !.id = u]
          /\ IF uploadsDir
             THEN /\ uploads' = WriteTo(uploads, path, uploaded_file.bytes)
                  /\ wrote' = wrote \cup {path}
                  /\ writeLog' = Append(writeLog, path)
                  /\ selWrites' = selWrites + 1
                  /\ pc' = "show"
                  /\ exc' = exc
             ELSE /\ pc' = "aborted"
                  /\ exc' = [cls |-> "FileNotFoundError", text |-> path]
                  /\ UNCHANGED <<uploads, wrote, writeLog, selWrites>>
  /\ UNCHANGED <<uploadsDir, resultsDir, results, modelExists, uploaded_file,
                 clicked, yolo, res_image, result_path, page, loads, predicts>>

\* st.image(input_path, caption="Original Image")
ShowOriginal ==
  /\ pc = "show"
  /\ page' = Append(page, OriginalImage(input_path))
  /\ pc' = "button"
  /\ UNCHANGED <<fsVars, modelExists, uploaded_file, clicked, runVars, exc,
                 usedIds, loads, predicts, wrote, writeLog, selWrites, inputs>>

\* Variant of ButtonNotPressed that analyses on every run with an upload.
ButtonIgnored ==
  /\ pc = "button"
  /\ ~clicked
  /\ pc' = "check"
  /\ UNCHANGED <<fsVars, modelExists, uploaded_file, clicked, runVars, page, exc,
                 usedIds, loads, predicts, wrote, writeLog, selWrites, inputs>>

\* st.button(...) is False: the run ends.
ButtonNotPressed ==
  /\ pc = "button"
  /\ ~clicked
  /\ pc' = "done"
  /\ UNCHANGED <<fsVars, modelExists, uploaded_file, clicked, runVars, page, exc,
                 usedIds, loads, predicts, wrote, writeLog, selWrites, inputs>>

\* st.button(...) is True: the analysis starts.
ButtonPressed ==
  /\ pc = "button"
  /\ clicked
  /\ pc' = "check"
  /\ UNCHANGED <<fsVars, modelExists, uploaded_file, clicked, runVars, page, exc,
                 usedIds, loads, predicts, wrote, writeLog, selWrites, inputs>>

\* Variant of ModelMissing that reports the missing file and goes on to the
\* try block.
ModelMissingFallsThrough ==
  /\ pc = "check"
  /\ ~modelExists
  /\ page' = Append(page, ModelMissingMsg)
  /\ inputs' = [inputs EXCEPT !.model = "missing"]
  /\ pc' = "load"
  /\ UNCHANGED <<fsVars, modelExists, uploaded_file, clicked, runVars, exc,
                 usedIds, loads, predicts, wrote, writeLog, selWrites>>

\* if not os.path.exists(MODEL_PATH): st.error(...)
ModelMissing ==
  /\ pc = "check"
  /\ ~modelExists
  /\ page' = Append(page, ModelMissingMsg)
  /\ inputs' = [inputs EXCEPT !.model = "missing"]
  /\ pc' = "done"
  /\ UNCHANGED <<fsVars, modelExists, uploaded_file, clicked, runVars, exc,
                 usedIds, loads, predicts, wrote, writeLog, selWrites>>

\* else: enter the try block.
ModelFound ==
  /\ pc = "check"
  /\ modelExists
  /\ inputs' = [inputs EXCEPT !.model = "found"]
  /\ pc' = "load"
  /\ UNCHANGED <<fsVars, modelExists, uploaded_file, clicked, runVars, page, exc,
                 usedIds, loads, predicts, wrote, writeLog, selWrites>>

\* model = YOLO(MODEL_PATH)
LoadModel ==
  /\ pc = "load"
  /\ loads' = loads + 1
  /\ pc' = "predict"
  /\ UNCHANGED <<fsVars, modelExists, uploaded_file, clicked, runVars, page, exc,
                 usedIds, predicts, wrote, writeLog, selWrites, inputs>>

\* results = model.predict(input_path): the model reads the stored file and
\* returns any number of boxes.
Predict ==
  /\ pc = "predict"
  /\ predicts' = predicts + 1
  /\ \E n \in BoxCounts :
       /\ yolo' = [src |-> uploads[input_path], boxes |-> n]
       /\ inputs' = [inputs EXCEPT !.boxes = n]
  /\ pc' = "plot"
  /\ UNCHANGED <<fsVars, modelExists, uploaded_file, clicked, unique_filename,
                 input_path, res_image, result_path, page, exc, usedIds, loads,
                 wrote, writeLog, selWrites>>

\* Variant of ResultFilename that names the result after the file the user
\* picked instead of the stored one.
ResultFilenameFromUpload(name) == <<"result_">> \o uploaded_file.name

\* f"result_{unique_filename}"
ResultFilename(name) == <<"result_">> \o name

\* result_path = os.path.join(RESULT_FOLDER, result_filename);
\* res_image = Image.fromarray(results[0].plot()[..., ::-1])
Plot ==
  /\ pc = "plot"
  /\ result_path' = PathJoin(RESULT_FOLDER, ResultFilename(unique_filename))
  /\ res_image' = [orig |-> yolo.src, boxes |-> yolo.boxes]
  /\ pc' = "save"
  /\ UNCHANGED <<fsVars, modelExists, uploaded_file, clicked, unique_filename,
                 input_path, yolo, page, exc, usedIds, loads, predicts, wrote,
                 writeLog, selWrites, inputs>>

\* Variant of Except that reports a fixed text instead of the exception's.
ExceptNoText(e) ==
  /\ exc' = e
  /\ inputs' = [inputs EXCEPT !.at = pc, !.exc = e]
  /\ IF IsSubclass(e.cls, "Exception")
     THEN /\ page' = Append(page, DetectionErrorMsg(NoExc))
          /\ pc' = "done"
     ELSE /\ page' = page
          /\ pc' = "aborted"

\* except Exception as e: st.error(f"Error during detection: {e}").  What
\* is no instance of Exception propagates and ends the run.
Except(e) ==
  /\ exc' = e
  /\ inputs' = [inputs EXCEPT !.at = pc, !.exc = e]
  /\ IF IsSubclass(e.cls, "Exception")
     THEN /\ page' = Append(page, DetectionErrorMsg(e))
          /\ pc' = "done"
     ELSE /\ page' = page
          /\ pc' = "aborted"

\* Variant of SaveResult that goes on without having stored the image.
SaveResultSkipped ==
  /\ pc = "save"
  /\ pc' = "display"
  /\ UNCHANGED <<fsVars, modelExists, uploaded_file, clicked, runVars, page, exc,
                 usedIds, loads, predicts, wrote, writeLog, selWrites, inputs>>

\* res_image.save(result_path)
SaveResult ==
  /\ pc = "save"
  /\ IF resultsDir
     THEN /\ results' = WriteTo(results, result_path, res_image)
          /\ wrote' = wrote \cup {result_path}
          /\ writeLog' = Append(writeLog, result_path)
          /\ pc' = "display"
          /\ UNCHANGED <<page, exc, inputs>>
     ELSE /\ Except([cls |-> "FileNotFoundError", text |-> result_path])
          /\ UNCHANGED <<results, wrote, writeLog>>
  /\ UNCHANGED <<uploadsDir, resultsDir, uploads, modelExists, uploaded_file,
                 clicked, runVars, usedIds, loads, predicts, selWrites>>

\* with col2: st.subheader(...); st.image(result_path, ...)
ShowResult ==
  /\ pc = "display"
  /\ page' = Append2(page, ResultsHeader, ResultImage(result_path))
  /\ pc' = "count"
  /\ UNCHANGED <<fsVars, modelExists, uploaded_file, clicked, runVars, exc,
                 usedIds, loads, predicts, wrote, writeLog, selWrites, inputs>>

\* Variant of CountBranch that compares with 1 instead of 0.
CountBranchOffByOne ==
  /\ pc = "count"
  /\ LET boxes == yolo.boxes
     IN page' = Append(page, IF boxes > 1 THEN SuccessMsg(boxes) ELSE NoDamageMsg)
  /\ pc' = "done"
  /\ UNCHANGED <<fsVars, modelExists, uploaded_file, clicked, runVars, exc,
                 usedIds, loads, predicts, wrote, writeLog, selWrites, inputs>>

\* boxes = results[0].boxes; if len(boxes) > 0: st.success(...) else st.info(...)
CountBranch ==
  /\ pc = "count"
  /\ LET boxes == yolo.boxes
     IN page' = Append(page, IF boxes > 0 THEN SuccessMsg(boxes) ELSE NoDamageMsg)
  /\ pc' = "done"
  /\ UNCHANGED <<fsVars, modelExists, uploaded_file, clicked, runVars, exc,
                 usedIds, loads, predicts, wrote, writeLog, selWrites, inputs>>

\* The statements of the try block; any of them can raise.
TryPoints == {"load", "predict", "plot", "save", "display", "count"}

Raise ==
  /\ pc \in TryPoints
  /\ \E e \in Raisable(pc) : Except(e)
  /\ UNCHANGED <<fsVars, modelExists, uploaded_file, clicked, runVars, usedIds,
                 loads, predicts, wrote, writeLog, selWrites>>

Next ==
  \/ UserUpload
  \/ UserClear
  \/ UserPress
  \/ EnvModelFile
  \/ MakeDirs
  \/ Placeholder
  \/ SaveUpload
  \/ ShowOriginal
  \/ ButtonNotPressed
  \/ ButtonPressed
  \/ ModelMissing
  \/ ModelFound
  \/ LoadModel
  \/ Predict
  \/ Plot
  \/ SaveResult
  \/ ShowResult
  \/ CountBranch
  \/ Raise

Spec == Init /\ [][Next]_vars

\* ---------------------------------------------------------------- vocabulary

Shows(e) == \E i \in 1..Len(page) : page[i] = e
ShowsKind(kind) == \E i \in 1..Len(page) : page[i].kind = kind
ShowsMissingModel == Shows(ModelMissingMsg)
ShowsNoDamage == Shows(NoDamageMsg)
ShowsSuccess == ShowsKind("success")
ShowsDetectionError ==
  \E i \in 1..Len(page) :
    /\ page[i].kind = "error"
    /\ page[i].text[1] = "Error during detection: "
\* The number a sequence of decimal digits denotes.
DigitValue(c) == CHOOSE d \in 0..9 : DigitChars[d + 1] = c
RECURSIVE ParseInt(_)
ParseInt(s) ==
  IF Len(s) = 0 THEN 0
  ELSE 10 * ParseInt(SubSeq(s, 1, Len(s) - 1)) + DigitValue(s[Len(s)])
\* The count a success message carries: the digits between its fixed parts.
CountIn(msg) == ParseInt(SubSeq(msg.text, 2, Len(msg.text) - 1))
InFolder(path, folder) == Len(path) > 2 /\ path[1] = folder
ResultsWritten == {p \in wrote : InFolder(p, RESULT_FOLDER)}
UploadsWritten == {p \in wrote : InFolder(p, UPLOAD_FOLDER)}
Running == ~Idle
\* The run is (or was) an analyze invocation that found the model file.
Analyzed == uploaded_file # None /\ clicked /\ inputs.model = "found"
\* The upload file a result file is named after.
SourceOf(r) == PathJoin(UPLOAD_FOLDER, Tail(SubSeq(r, 3, Len(r))))

\* ---------------------------------------------------------------- C1

\* C1: in a run with an upload and the button pressed while the model file
\* is missing, the "Model file not found" error is shown and the model is
\* never loaded, predict is never called and nothing is written to results/.
C1_MissingModelBlocks ==
  (uploaded_file # None /\ clicked
     /\ ((Running /\ ~modelExists) \/ inputs.model = "missing"))
  => /\ loads = 0
     /\ predicts = 0
     /\ ResultsWritten = {}
     /\ pc \notin TryPoints
     /\ pc # "aborted"
     /\ (pc = "done" => ShowsMissingModel /\ ~ShowsDetectionError)

C1_Witness ==
  /\ pc = "done"
  /\ uploaded_file # None
  /\ clicked
  /\ inputs.model = "missing"
  /\ ShowsMissingModel

\* ---------------------------------------------------------------- C2

\* The message the count branch owes for the boxes the model returned.
CountMessageRight ==
  /\ yolo.boxes = 0 => ShowsNoDamage /\ ~ShowsSuccess
  /\ yolo.boxes > 0 =>
       /\ ~ShowsNoDamage
       /\ \E i \in 1..Len(page) :
            page[i].kind = "success" /\ CountIn(page[i]) = yolo.boxes
       /\ \A i \in 1..Len(page) :
            page[i].kind = "success" => CountIn(page[i]) = yolo.boxes

\* C2 as stated: whenever inference and result saving completed without an
\* exception, the message matches the number of boxes.
C2_AsStated ==
  (Idle /\ Analyzed /\ result_path \in wrote) => CountMessageRight

\* C2 (amended): for every analyze invocation whose try block completes
\* without an exception (inference, result saving, result display and the
\* box count), zero boxes give the "No visible damage detected." message and
\* no success message, and n > 0 boxes give the success message carrying
\* exactly n and no info message.
C2_CountBranch ==
  (Idle /\ Analyzed /\ exc = NoExc) => CountMessageRight

C2_Witness ==
  /\ pc = "done"
  /\ Analyzed
  /\ exc = NoExc
  /\ yolo.boxes > 9
  /\ ShowsSuccess

\* ---------------------------------------------------------------- C3

\* The error message for the exception of this run is the last thing shown.
ErrorReported ==
  /\ pc = "done"
  /\ Len(page) > 0
  /\ page[Len(page)] = DetectionErrorMsg(exc)
  /\ SubSeq(page[Len(page)].text, 2, Len(page[Len(page)].text)) = exc.text
  /\ loads <= 1
  /\ predicts <= 1
  /\ ENABLED UserClear

C4_WrittenOnce ==
  /\ selWrites <= 1
  /\ (Idle /\ uploaded_file # None) => selWrites = 1

\* ---------------------------------------------------------------- C5

NoRepeatedTarget ==
  \A i, j \in 1..Len(writeLog) : writeLog[i] = writeLog[j] => i = j

Preserved ==
  /\ \A p \in DOMAIN uploads : p \in DOMAIN uploads' /\ uploads'[p] = uploads[p]
  /\ \A p \in DOMAIN results : p \in DOMAIN results' /\ results'[p] = results[p]

\* C5: uploads/ and results/ are append-only: with fresh identifiers no
\* step deletes or overwrites a file, and no two writes target the same
\* file name.
C5_AppendOnly == [][Preserved /\ NoRepeatedTarget']_vars

C5_Witness ==
  /\ Cardinality(DOMAIN uploads) >= 2
  /\ Cardinality(DOMAIN results) >= 1
  /\ exc # NoExc
  /\ Idle

\* ---------------------------------------------------------------- C6

DetectionShown ==
  \/ Shows(ResultsHeader)
  \/ ShowsSuccess
  \/ ShowsNoDamage
  \/ ShowsKind("error")
  \/ \E i \in 1..Len(page) :
       page[i].kind = "image" /\ InFolder(page[i].path, RESULT_FOLDER)

\* C6: in a run without an upload, or with an upload and the button not
\* pressed, the model is neither loaded nor invoked, nothing is written to
\* results/ and no detection result or message is shown; without an upload
\* only the placeholder is shown and nothing is written to uploads/.
C6_OnlyOnTrigger ==
  (uploaded_file = None \/ ~clicked)
  => /\ loads = 0
     /\ predicts = 0
     /\ ResultsWritten = {}
     /\ ~DetectionShown
     /\ pc \notin TryPoints \cup {"check"}
     /\ uploaded_file = None =>
          /\ wrote = {}
          /\ page \in {<<>>, <<PlaceholderMsg>>}
          /\ (pc = "done" => page = <<PlaceholderMsg>>)

C6_Witness ==
  /\ pc = "done"
  /\ uploaded_file # None
  /\ ~clicked
  /\ UploadsWritten # {}
  /\ Cardinality(DOMAIN results) >= 1

\* ---------------------------------------------------------------- C7

\* C7: every file of results/ is named "result_" plus the full name of a
\* file that exists in uploads/, holds the model's output for the bytes of
\* that file, and no upload file has two result files.
C7_ResultDerived ==
  /\ \A r \in DOMAIN results :
       /\ InFolder(r, RESULT_FOLDER)
       /\ r[3] = "result_"
       /\ SourceOf(r) \in DOMAIN uploads
       /\ results[r].orig = uploads[SourceOf(r)]
  /\ \A u \in DOMAIN uploads :
       /\ Cardinality({r \in DOMAIN results : SourceOf(r) = u}) <= 1
       /\ Cardinality({i \in 1..Len(writeLog) :
            InFolder(writeLog[i], RESULT_FOLDER) /\ SourceOf(writeLog[i]) = u}) <= 1

C7_Witness ==
  /\ Cardinality(DOMAIN results) >= 2
  /\ Cardinality(DOMAIN uploads) >= 3
  /\ \E r1, r2 \in DOMAIN results : results[r1].boxes # results[r2].boxes

\* ---------------------------------------------------------------- C8

TryOrder == <<"load", "predict", "plot", "save", "display", "count">>
Pos(point) == CHOOSE i \in 1..Len(TryOrder) : TryOrder[i] = point
\* The try block got past the given statement.
Past(in, point) == in.at = "none" \/ Pos(in.at) > Pos(point)

ExpectedInputPath(in) ==
  PathJoin(UPLOAD_FOLDER, UniqueFilename(in.id, SplitExt(in.file.name)))
ExpectedResultPath(in) ==
  PathJoin(RESULT_FOLDER,
           <<"result_">> \o UniqueFilename(in.id, SplitExt(in.file.name)))
ExpectedSaved(in) ==
  in.file # None /\ in.pressed /\ in.model = "found" /\ Past(in, "save")

\* What a finished run shows, from what it read alone.
ExpectedPage(in) ==
  IF in.file = None THEN <<PlaceholderMsg>>
  ELSE <<OriginalImage(ExpectedInputPath(in))>> \o
    (IF ~in.pressed THEN <<>>
     ELSE IF in.model = "missing" THEN <<ModelMissingMsg>>
     ELSE (IF Past(in, "display")
             THEN <<ResultsHeader, ResultImage(ExpectedResultPath(in))>>
             ELSE <<>>) \o
          (IF in.at = "none"
             THEN <<IF in.boxes > 0 THEN SuccessMsg(in.boxes) ELSE NoDamageMsg>>
             ELSE IF IsSubclass(in.exc.cls, "Exception")
               THEN <<DetectionErrorMsg(in.exc)>>
               ELSE <<>>))

\* What a finished run has written, from what it read alone.
ExpectedWrote(in) ==
  IF in.file = None THEN {}
  ELSE {ExpectedInputPath(in)} \cup
       (IF ExpectedSaved(in) THEN {ExpectedResultPath(in)} ELSE {})

\* C8: what a run shows and writes is a function of the run's own inputs
\* (uploaded file, button, model file, model output or exception, fresh
\* identifier), whatever earlier runs did and whatever the folders hold.
C8_Stateless ==
  Idle =>
    /\ page = ExpectedPage(inputs)
    /\ wrote = ExpectedWrote(inputs)
    /\ inputs.file # None =>
         uploads[ExpectedInputPath(inputs)] = inputs.file.bytes
    /\ ExpectedSaved(inputs) =>
         results[ExpectedResultPath(inputs)]
           = [orig |-> inputs.file.bytes, boxes |-> inputs.boxes]

C8_Witness ==
  /\ pc = "done"
  /\ Analyzed
  /\ exc = NoExc
  /\ \E p \in DOMAIN uploads : p # input_path /\ uploads[p] = uploaded_file.bytes
  /\ Cardinality(DOMAIN results) >= 2

\* ---------------------------------------------------------------- C9

\* C9: every run first creates uploads/ and results/ when absent, without
\* failing and without touching their files when they exist, so both exist
\* whenever a file is written.
C9_FoldersFirst ==
  [][/\ pc = "start" =>
          /\ pc' = "uploader"
          /\ uploadsDir' /\ resultsDir'
          /\ uploads' = uploads /\ results' = results
     /\ (pc # "start" /\ pc' = "start") => Idle
     /\ uploads' # uploads => uploadsDir
     /\ results' # results => resultsDir
     /\ (pc # "start" /\ Running) => uploadsDir /\ resultsDir]_vars

C9_Witness ==
  /\ pc = "uploader"
  /\ uploaded_file # None
  /\ Cardinality(DOMAIN uploads) >= 1
  /\ Cardinality(DOMAIN results) >= 1

\* ---------------------------------------------------------------- C10

\* Where the page shows the result image, and where the count message.
ResultShownAt ==
  {i \in 1..Len(page) : page[i] = ResultImage(result_path)}
MessageAt ==
  {i \in 1..Len(page) : page[i].kind = "success" \/ page[i] = NoDamageMsg}

\* C10: a run that shows the success or the "No visible damage detected."
\* message has written the annotated image of its stored upload to results/
\* and shown it before the message, and shows no error; a run that shows the
\* missing-model error has written no result file.
C10_MessageAfterResult ==
  /\ (ShowsSuccess \/ ShowsNoDamage) =>
       /\ input_path \in wrote
       /\ result_path = PathJoin(RESULT_FOLDER, ResultFilename(unique_filename))
       /\ result_path \in wrote
       /\ result_path \in DOMAIN results
       /\ results[result_path].orig = uploads[input_path]
       /\ \A m \in MessageAt : \E i \in ResultShownAt : i < m
       /\ ~ShowsKind("error")
  /\ ShowsMissingModel => ResultsWritten = {}

C10_Witness ==
  /\ pc = "done"
  /\ ShowsNoDamage
  /\ result_path \in DOMAIN results

====
